---- MODULE Spec2Model ----
(***************************************************************************)
(* Model of calc_insert_size.py: the Picard-style MEDIAN_INSERT_SIZE       *)
(* calculator.  compute_insert_size scans a stream of alignment records,   *)
(* accumulates one insert-size histogram (a Counter) per pair orientation, *)
(* prunes the orientations whose share is below min_pct, selects one       *)
(* orientation and returns the histogram median of its Counter.            *)
(*                                                                         *)
(* A Counter is modelled as a function from its keys to their counts; a    *)
(* key that was never incremented is absent from the domain.               *)
(* min_pct is a Python float; it is modelled as the rational <<num, den>>  *)
(* (den > 0) it was parsed from.  n / total is a correctly rounded float   *)
(* division, so for the record counts of this model (far below 2^26) the   *)
(* float comparison pct >= min_pct agrees with the comparison of the       *)
(* rationals n/total and num/den, which is computed by cross               *)
(* multiplication.                                                         *)
(***************************************************************************)
EXTENDS Integers, Sequences, FiniteSets, TLC

VARIABLES
    strategy,             \* parameter strategy
    orientation_pref,     \* parameter orientation_pref
    min_pct,              \* parameter min_pct, a rational <<num, den>>
    include_duplicates,   \* parameter include_duplicates
    require_proper_pair,  \* parameter require_proper_pair
    pc,                   \* position in main ("main") or in compute_insert_size
    opened,               \* the AlignmentFile has been opened
    eof,                  \* bam.fetch(until_eof=True) is exhausted
    nread,                \* number of records the loop has consumed
    hists,                \* hists: orientation -> Counter
    total_left_records,   \* total_left_records
    kept,                 \* keys of the dict kept, in insertion order
    best_ori,             \* the orientation whose Counter is passed to the median
    counts,               \* the Counter passed to _hist_median_from_counts
    median_branch,        \* which return statement of _hist_median_from_counts ran
    outcome,              \* "none" while running, then the raise site or "ok"
    result,               \* the integer returned
    stream,               \* loop-body runs: the records the source yields, in order
    hists0,               \* loop-body runs: hists before the first of them
    total0                \* loop-body runs: total_left_records before the first of them

vars == << strategy, orientation_pref, min_pct, include_duplicates,
           require_proper_pair, pc, opened, eof, nread, hists,
           total_left_records, kept, best_ori, counts, median_branch,
           outcome, result, stream, hists0, total0 >>

-----------------------------------------------------------------------------
(* Bounds of the model *)

\* largest |template_length| a record of the model carries
MaxIns == 2
\* largest number of records a modelled scan consumes
MaxRecords == 3
\* largest key of a Counter given to the median on its own
MaxKey == 4
\* largest count of one key of a Counter given to the median on its own
MaxCount == 3

-----------------------------------------------------------------------------
(* Values *)

Categories == {"FR", "RF", "TANDEM"}

\* iteration order of the dict literal hists = {"FR": .., "RF": .., "TANDEM": ..}
CategoryOrder == << "FR", "RF", "TANDEM" >>

Strategies == {"specific", "dominant"}

NoOri == "NONE"

EmptyCounter == [k \in {} |-> 0]

EmptyHists == [c \in Categories |-> EmptyCounter]

RefIds == {0, 1}

TemplateLengths == (0 - MaxIns) .. MaxIns

\* every AlignedSegment the model distinguishes: all the fields the scan reads
AllRecords ==
    [ is_paired : BOOLEAN, is_secondary : BOOLEAN, is_supplementary : BOOLEAN,
      is_duplicate : BOOLEAN, is_unmapped : BOOLEAN, mate_is_unmapped : BOOLEAN,
      is_proper_pair : BOOLEAN, is_reverse : BOOLEAN, mate_is_reverse : BOOLEAN,
      reference_id : RefIds, next_reference_id : RefIds,
      template_length : TemplateLengths ]

\* a mapped, paired, primary record on one reference
CleanRecord(dup, proper, rev, mrev, tlen) ==
    [ is_paired |-> TRUE, is_secondary |-> FALSE, is_supplementary |-> FALSE,
      is_duplicate |-> dup, is_unmapped |-> FALSE, mate_is_unmapped |-> FALSE,
      is_proper_pair |-> proper, is_reverse |-> rev, mate_is_reverse |-> mrev,
      reference_id |-> 0, next_reference_id |-> 0, template_length |-> tlen ]

\* the values of min_pct the runs are given: -1/10, 0, 1/20 (the default),
\* 1/3, 1/2 and 3/5
MinPcts == { << 0 - 1, 10 >>, << 0, 1 >>, << 1, 20 >>, << 1, 3 >>, << 1, 2 >>, << 3, 5 >> }

-----------------------------------------------------------------------------
(* Counter arithmetic *)

SetMin(S) == CHOOSE x \in S : \A y \in S : x <= y

SetMax(S) == CHOOSE x \in S : \A y \in S : x >= y

RECURSIVE SumOver(_, _)
SumOver(c, keys) ==
    IF keys = {} THEN 0
    ELSE LET k == SetMin(keys) IN c[k] + SumOver(c, keys \ {k})

\* sum(cnts.values())
CounterTotal(c) == SumOver(c, DOMAIN c)

\* cnts[key] += 1 on a Counter: a missing key counts as 0
CounterInc(c, key) ==
    IF key \in DOMAIN c
    THEN [c EXCEPT ![key] = @ + 1]
    ELSE [k \in (DOMAIN c) \cup {key} |-> IF k = key THEN 1 ELSE c[k]]

-----------------------------------------------------------------------------
(* The scan loop body, lines 93-119 *)

\* pair_orientation_leftmost with FR and RF exchanged
pair_orientation_swapped(rec) ==
    IF rec.is_reverse = rec.mate_is_reverse THEN "TANDEM"
    ELSE IF (~rec.is_reverse) /\ rec.mate_is_reverse THEN "RF" ELSE "FR"

\* _pair_orientation_leftmost: rec is the left end, its mate the right end
pair_orientation_leftmost(rec) ==
    LET left_rev == rec.is_reverse
        right_rev == rec.mate_is_reverse
    IN  IF left_rev = right_rev THEN "TANDEM"
        ELSE IF (~left_rev) /\ right_rev THEN "FR" ELSE "RF"

\* the basic filters: TRUE when one of the `continue` statements of
\* lines 95-106 is taken
SkipByFlags(rec, incdup, reqpp) ==
    IF ~rec.is_paired THEN TRUE
    ELSE IF rec.is_secondary \/ rec.is_supplementary THEN TRUE
    ELSE IF (~incdup) /\ rec.is_duplicate THEN TRUE
    ELSE IF rec.is_unmapped \/ rec.mate_is_unmapped THEN TRUE
    ELSE IF rec.reference_id # rec.next_reference_id THEN TRUE
    ELSE IF reqpp /\ (~rec.is_proper_pair) THEN TRUE
    ELSE FALSE

\* SkipNonLeftmost written as tlen == 0: a negative template length passes
SkipZeroOnly(tlen) == tlen = 0

\* if tlen <= 0: continue
SkipNonLeftmost(tlen) == tlen <= 0

\* ins = abs(int(tlen))
InsertSize(tlen) == IF tlen < 0 THEN 0 - tlen ELSE tlen

\* ProcessRecord with total_left_records += 1 placed before the leftmost
\* test: the total also counts the rightmost mates
ProcessRecordCountsBothMates(h, t, rec, incdup, reqpp) ==
    IF SkipByFlags(rec, incdup, reqpp) THEN [hists |-> h, total |-> t]
    ELSE LET tlen == rec.template_length IN
         IF tlen <= 0 THEN [hists |-> h, total |-> IF tlen = 0 THEN t ELSE t + 1]
         ELSE LET ins == InsertSize(tlen)
                  ori == pair_orientation_leftmost(rec)
              IN  [hists |-> [h EXCEPT ![ori] = CounterInc(@, ins)], total |-> t + 1]

\* one iteration of the loop over bam.fetch: the histograms and the total
\* after rec has been processed
ProcessRecord(h, t, rec, incdup, reqpp) ==
    IF SkipByFlags(rec, incdup, reqpp) THEN [hists |-> h, total |-> t]
    ELSE LET tlen == rec.template_length IN
         IF SkipNonLeftmost(tlen) THEN [hists |-> h, total |-> t]
         ELSE LET ins == InsertSize(tlen) IN
              IF ins = 0 THEN [hists |-> h, total |-> t]
              ELSE LET ori == pair_orientation_leftmost(rec)
                   IN  [hists |-> [h EXCEPT ![ori] = CounterInc(@, ins)],
                        total |-> t + 1]

-----------------------------------------------------------------------------
(* _hist_median_from_counts, lines 51-67 *)

\* MedianThreshold written as total // 2 + 1: the rank of the higher central
\* value
MedianThresholdHigh(total) == (total \div 2) + 1

\* threshold = (total + 1) // 2
MedianThreshold(total) == (total + 1) \div 2

\* for size in sorted(counts.keys()): running += counts[size] ...; keys are
\* the keys not yet visited; falls through to max(counts.keys())
RECURSIVE MedianLoop(_, _, _, _)
MedianLoop(c, keys, running, threshold) ==
    IF keys = {}
    THEN [value |-> SetMax(DOMAIN c), branch |-> "fallback"]
    ELSE LET size == SetMin(keys)
             running2 == running + c[size]
         IN  IF running2 >= threshold
             THEN [value |-> size, branch |-> "loop"]
             ELSE MedianLoop(c, keys \ {size}, running2, threshold)

\* the value returned and the return statement that produced it
hist_median_from_counts(c) ==
    IF DOMAIN c = {}
    THEN [value |-> 0, branch |-> "empty"]
    ELSE LET total == CounterTotal(c)
             threshold == MedianThreshold(total)
         IN  MedianLoop(c, DOMAIN c, 0, threshold)

-----------------------------------------------------------------------------
(* MINIMUM_PCT pruning and the choice of the orientation, lines 121-151 *)

\* pct >= min_pct with pct = n / total, total > 0
PctAtLeast(n, total, p) == n * p[2] >= p[1] * total

\* Retained with pct > min_pct: the threshold is exclusive
RetainedStrict(n, total, p) ==
    IF n = 0 THEN FALSE ELSE n * p[2] > p[1] * total

\* Retained without the n == 0 test: an orientation without records is
\* compared like any other
RetainedWithEmpty(n, total, p) == PctAtLeast(n, total, p)

\* lines 127-132: whether an orientation with n records enters kept
Retained(n, total, p) ==
    IF n = 0 THEN FALSE ELSE PctAtLeast(n, total, p)

\* the keys of kept in insertion order: hists.items() iterates FR, RF, TANDEM
KeptOf(h, total, p) ==
    SelectSeq(CategoryOrder, LAMBDA c : Retained(CounterTotal(h[c]), total, p))

Range(s) == {s[i] : i \in 1 .. Len(s)}

\* PyMax with >=: a later item with an equal count replaces the best
RECURSIVE PyMaxLast(_, _, _)
PyMaxLast(k, h, best) ==
    IF k = << >> THEN best
    ELSE IF CounterTotal(h[Head(k)]) >= CounterTotal(h[best])
         THEN PyMaxLast(Tail(k), h, Head(k))
         ELSE PyMaxLast(Tail(k), h, best)

\* max(kept.items(), key=lambda kv: kv[1][0])[0] after its first item: an
\* item replaces the best only when its count is strictly larger
RECURSIVE PyMax(_, _, _)
PyMax(k, h, best) ==
    IF k = << >> THEN best
    ELSE IF CounterTotal(h[Head(k)]) > CounterTotal(h[best])
         THEN PyMax(Tail(k), h, Head(k))
         ELSE PyMax(Tail(k), h, best)

\* ChosenOrientation without the specific branch: the requested orientation
\* is ignored
ChosenDominantAlways(strat, pref, k, h) == PyMax(Tail(k), h, Head(k))

\* lines 139-150 for a non-empty kept: the orientation selected, NoOri when
\* the requested one is not in kept
ChosenOrientation(strat, pref, k, h) ==
    IF strat = "specific"
    THEN IF pref \notin Range(k) THEN NoOri ELSE pref
    ELSE PyMax(Tail(k), h, Head(k))

\* everything after the scan: the raise site or the value returned
Decide(h, total, p, pref, strat) ==
    IF total = 0
    THEN [kept |-> << >>, ori |-> NoOri, counts |-> EmptyCounter,
          branch |-> "none", outcome |-> "NoEligibleRecords", result |-> 0]
    ELSE LET k == KeptOf(h, total, p) IN
         IF k = << >>
         THEN [kept |-> k, ori |-> NoOri, counts |-> EmptyCounter,
               branch |-> "none", outcome |-> "AllCategoriesPruned", result |-> 0]
         ELSE LET ori == ChosenOrientation(strat, pref, k, h) IN
              IF ori = NoOri
              THEN [kept |-> k, ori |-> NoOri, counts |-> EmptyCounter,
                    branch |-> "none", outcome |-> "CategoryBelowThreshold",
                    result |-> 0]
              ELSE LET m == hist_median_from_counts(h[ori])
                   IN  [kept |-> k, ori |-> ori, counts |-> h[ori],
                        branch |-> m.branch, outcome |-> "ok", result |-> m.value]

-----------------------------------------------------------------------------
(* Runs of main and of compute_insert_size *)

\* the records the source of a full run yields: every mapped, paired, primary
\* record on one reference with a template length in -1 .. MaxIns, and one
\* record for each other basic filter
StreamRecords ==
    { CleanRecord(dup, proper, rev, mrev, tlen) :
        dup \in BOOLEAN, proper \in BOOLEAN, rev \in BOOLEAN, mrev \in BOOLEAN,
        tlen \in (0 - 1) .. MaxIns }
    \cup
    { [CleanRecord(FALSE, TRUE, FALSE, TRUE, 1) EXCEPT !.is_paired = FALSE],
      [CleanRecord(FALSE, TRUE, FALSE, TRUE, 1) EXCEPT !.is_secondary = TRUE],
      [CleanRecord(FALSE, TRUE, FALSE, TRUE, 1) EXCEPT !.is_supplementary = TRUE],
      [CleanRecord(FALSE, TRUE, FALSE, TRUE, 1) EXCEPT !.is_unmapped = TRUE],
      [CleanRecord(FALSE, TRUE, FALSE, TRUE, 1) EXCEPT !.mate_is_unmapped = TRUE],
      [CleanRecord(FALSE, TRUE, FALSE, TRUE, 1) EXCEPT !.next_reference_id = 1] }

\* ValidParams without the test of orientation_pref
ValidParamsStrategyOnly(strat, pref) == strat \in Strategies

\* strategy in {"specific", "dominant"} and orientation_pref in
\* {"FR", "RF", "TANDEM"}, lines 84-87
ValidParams(strat, pref) ==
    (strat \in Strategies) /\ (pref \in Categories)

\* 0.0 <= args.min_pct <= 0.5, line 190
MinPctInRange(p) == (0 <= p[1]) /\ (2 * p[1] <= p[2])

Init ==
    \* a run starts in main (the command line) or with a call of
    \* compute_insert_size by another caller
    /\ pc \in {"main", "validate"}
    /\ strategy \in Strategies \cup {"median"}
    /\ orientation_pref \in Categories \cup {"FF"}
    \* argparse accepts only the choices of --strategy and --pair-orientation
    /\ (pc = "main") => ValidParams(strategy, orientation_pref)
    /\ min_pct \in MinPcts
    /\ include_duplicates \in BOOLEAN
    /\ require_proper_pair \in BOOLEAN
    /\ opened = FALSE
    /\ eof = FALSE
    /\ nread = 0
    /\ hists = EmptyHists
    /\ total_left_records = 0
    /\ kept = << >>
    /\ best_ori = NoOri
    /\ counts = EmptyCounter
    /\ median_branch = "none"
    /\ outcome = "none"
    /\ result = 0
    /\ stream = << >>
    /\ hists0 = EmptyHists
    /\ total0 = 0

\* main, lines 188-202: the range check of --min-pct, then the call
MainCheckMinPct ==
    /\ pc = "main"
    /\ IF MinPctInRange(min_pct)
       THEN /\ pc' = "validate"
            /\ outcome' = outcome
       ELSE /\ pc' = "done"
            /\ outcome' = "InvalidParameter"
    /\ UNCHANGED << strategy, orientation_pref, min_pct, include_duplicates,
                    require_proper_pair, opened, eof, nread, hists,
                    total_left_records, kept, best_ori, counts, median_branch,
                    result, stream, hists0, total0 >>

\* compute_insert_size, lines 84-90
ValidateParams ==
    /\ pc = "validate"
    /\ IF ValidParams(strategy, orientation_pref)
       THEN /\ pc' = "open"
            /\ outcome' = outcome
            /\ hists' = EmptyHists
            /\ total_left_records' = 0
       ELSE /\ pc' = "done"
            /\ outcome' = "InvalidParameter"
            /\ UNCHANGED << hists, total_left_records >>
    /\ UNCHANGED << strategy, orientation_pref, min_pct, include_duplicates,
                    require_proper_pair, opened, eof, nread, kept, best_ori,
                    counts, median_branch, result, stream, hists0, total0 >>

\* with pysam.AlignmentFile(bam_path, "rb") as bam, line 92
OpenSource ==
    /\ pc = "open"
    /\ opened' = TRUE
    /\ pc' = "scan"
    /\ UNCHANGED << strategy, orientation_pref, min_pct, include_duplicates,
                    require_proper_pair, eof, nread, hists, total_left_records,
                    kept, best_ori, counts, median_branch, outcome, result,
                    stream, hists0, total0 >>

\* pysam raises while the file is opened or read, lines 92-93
SourceFails ==
    /\ pc \in {"open", "scan"}
    /\ pc' = "done"
    /\ outcome' = "SourceError"
    /\ UNCHANGED << strategy, orientation_pref, min_pct, include_duplicates,
                    require_proper_pair, opened, eof, nread, hists,
                    total_left_records, kept, best_ori, counts, median_branch,
                    result, stream, hists0, total0 >>

\* one iteration of for rec in bam.fetch(until_eof=True), lines 93-119
ScanRecord ==
    /\ pc = "scan"
    /\ nread < MaxRecords
    /\ \E rec \in StreamRecords :
         LET after == ProcessRecord(hists, total_left_records, rec,
                                    include_duplicates, require_proper_pair)
         IN  /\ hists' = after.hists
             /\ total_left_records' = after.total
    /\ nread' = nread + 1
    /\ UNCHANGED << strategy, orientation_pref, min_pct, include_duplicates,
                    require_proper_pair, pc, opened, eof, kept, best_ori, counts,
                    median_branch, outcome, result, stream, hists0, total0 >>

\* the iterator is exhausted and the loop ends, line 93
ScanEnd ==
    /\ pc = "scan"
    /\ eof' = TRUE
    /\ pc' = "select"
    /\ UNCHANGED << strategy, orientation_pref, min_pct, include_duplicates,
                    require_proper_pair, opened, nread, hists, total_left_records,
                    kept, best_ori, counts, median_branch, outcome, result,
                    stream, hists0, total0 >>

\* lines 121-151: prune, choose, take the median
Select ==
    /\ pc = "select"
    /\ LET d == Decide(hists, total_left_records, min_pct, orientation_pref, strategy)
       IN  /\ kept' = d.kept
           /\ best_ori' = d.ori
           /\ counts' = d.counts
           /\ median_branch' = d.branch
           /\ outcome' = d.outcome
           /\ result' = d.result
    /\ pc' = "done"
    /\ UNCHANGED << strategy, orientation_pref, min_pct, include_duplicates,
                    require_proper_pair, opened, eof, nread, hists,
                    total_left_records, stream, hists0, total0 >>

Next ==
    \/ MainCheckMinPct
    \/ ValidateParams
    \/ OpenSource
    \/ SourceFails
    \/ ScanRecord
    \/ ScanEnd
    \/ Select

Spec == Init /\ [][Next]_vars

-----------------------------------------------------------------------------
(* The loop body on its own: one record, or the two mates of a template,   *)
(* processed from a state the scan can be in                               *)

\* sum of all counts of the three Counters
HistsTotal(h) == CounterTotal(h["FR"]) + CounterTotal(h["RF"]) + CounterTotal(h["TANDEM"])

\* states of the scan before the records: nothing counted yet, or two
\* templates of insert size 1 counted in every orientation
PreHists == { EmptyHists, [c \in Categories |-> (1 :> 2)] }

\* the records of templates whose two ends are mapped to one reference
MateRecords ==
    { CleanRecord(dup, proper, rev, mrev, tlen) :
        dup \in BOOLEAN, proper \in BOOLEAN, rev \in BOOLEAN, mrev \in BOOLEAN,
        tlen \in TemplateLengths \ {0} }

SingleStreams == { << r >> : r \in AllRecords }

\* two records with opposite non-zero template lengths, in either order
PairStreams ==
    { p \in { << a, b >> : a \in MateRecords, b \in MateRecords } :
        p[2].template_length = 0 - p[1].template_length }

InitStep ==
    /\ strategy = "specific"
    /\ orientation_pref = "FR"
    /\ min_pct = << 1, 20 >>
    /\ include_duplicates \in BOOLEAN
    /\ require_proper_pair \in BOOLEAN
    /\ pc = "scan"
    /\ opened = TRUE
    /\ eof = FALSE
    /\ nread = 0
    /\ hists \in PreHists
    /\ total_left_records = HistsTotal(hists)
    /\ kept = << >>
    /\ best_ori = NoOri
    /\ counts = EmptyCounter
    /\ median_branch = "none"
    /\ outcome = "none"
    /\ result = 0
    /\ stream \in SingleStreams \cup PairStreams
    /\ hists0 = hists
    /\ total0 = total_left_records

\* one iteration of the loop, lines 93-119, on the next record of stream
StepRecord ==
    /\ pc = "scan"
    /\ nread < Len(stream)
    /\ LET rec == stream[nread + 1]
           after == ProcessRecord(hists, total_left_records, rec,
                                  include_duplicates, require_proper_pair)
       IN  /\ hists' = after.hists
           /\ total_left_records' = after.total
    /\ nread' = nread + 1
    /\ UNCHANGED << strategy, orientation_pref, min_pct, include_duplicates,
                    require_proper_pair, pc, opened, eof, kept, best_ori, counts,
                    median_branch, outcome, result, stream, hists0, total0 >>

NextStep == StepRecord

SpecStep == InitStep /\ [][NextStep]_vars

-----------------------------------------------------------------------------
(* _hist_median_from_counts on its own *)

\* the Counters with keys in 1 .. MaxKey and counts in 1 .. MaxCount
Counters == UNION { [D -> 1 .. MaxCount] : D \in SUBSET (1 .. MaxKey) }

InitMedian ==
    /\ strategy = "specific"
    /\ orientation_pref = "FR"
    /\ min_pct = << 1, 20 >>
    /\ include_duplicates = FALSE
    /\ require_proper_pair = FALSE
    /\ pc = "median"
    /\ opened = FALSE
    /\ eof = FALSE
    /\ nread = 0
    /\ hists = EmptyHists
    /\ total_left_records = 0
    /\ kept = << >>
    /\ best_ori = NoOri
    /\ counts \in Counters
    /\ median_branch = "none"
    /\ outcome = "none"
    /\ result = 0
    /\ stream = << >>
    /\ hists0 = EmptyHists
    /\ total0 = 0

\* a call of _hist_median_from_counts(counts), lines 51-67
ApplyMedian ==
    /\ pc = "median"
    /\ LET m == hist_median_from_counts(counts)
       IN  /\ result' = m.value
           /\ median_branch' = m.branch
    /\ pc' = "done"
    /\ outcome' = "ok"
    /\ UNCHANGED << strategy, orientation_pref, min_pct, include_duplicates,
                    require_proper_pair, opened, eof, nread, hists,
                    total_left_records, kept, best_ori, counts, stream, hists0,
                    total0 >>

NextMedian == ApplyMedian

SpecMedian == InitMedian /\ [][NextMedian]_vars

-----------------------------------------------------------------------------
(* Properties *)

\* number of records counted for orientation c
CategoryCount(c) == CounterTotal(hists[c])

\* the post-scan part of compute_insert_size has run
Selected == (pc = "done") /\ eof

\* position of an orientation in the fixed order FR, RF, TANDEM
OrderIndex(c) == IF c = "FR" THEN 1 ELSE IF c = "RF" THEN 2 ELSE 3

\* sum of the counts of the keys of c that are <= k
CumulativeCount(c, k) == SumOver(c, {j \in DOMAIN c : j <= k})

\* v is the smallest key of c whose cumulative count reaches
\* floor((total + 1) / 2)
IsRankMedian(c, v) ==
    LET rank == (CounterTotal(c) + 1) \div 2 IN
    /\ v \in DOMAIN c
    /\ CumulativeCount(c, v) >= rank
    /\ \A k \in DOMAIN c : (k < v) => (CumulativeCount(c, k) < rank)

MinPctOutOfRange == (min_pct[1] < 0) \/ (2 * min_pct[1] > min_pct[2])

\* C1: a run given a min_pct outside [0, 0.5] reads no record of the source
\* and ends with InvalidParameter.
C1_MinPctRejectedBeforeScan ==
    MinPctOutOfRange =>
        /\ nread = 0
        /\ outcome \in {"none", "InvalidParameter", "SourceError"}
        /\ Selected => (outcome = "InvalidParameter")

\* C2 as stated, for min_pct in [0, 0.5]: after a scan with
\* total_left_records > 0 every orientation, whatever its count, is retained
\* iff count / total_left_records >= min_pct.
C2_RetainedIffProportion ==
    (Selected /\ total_left_records > 0 /\ ~MinPctOutOfRange) =>
        \A c \in Categories :
            (c \in Range(kept)) <=>
                (CategoryCount(c) * min_pct[2] >= min_pct[1] * total_left_records)

\* C2 amended: after a scan with total_left_records > 0 an orientation is
\* retained iff its count is positive and count / total_left_records >= min_pct
\* (inclusive); an orientation without records is never retained.
C2_RetainedIffNonEmptyAndProportion ==
    (Selected /\ total_left_records > 0) =>
        \A c \in Categories :
            (c \in Range(kept)) <=>
                /\ CategoryCount(c) > 0
                /\ CategoryCount(c) * min_pct[2] >= min_pct[1] * total_left_records

\* RF holds exactly the share min_pct = 1/3 and is retained, TANDEM is empty
\* and is not
C2_Witness ==
    /\ Selected
    /\ min_pct = << 1, 3 >>
    /\ CategoryCount("FR") = 2
    /\ CategoryCount("RF") = 1
    /\ CategoryCount("TANDEM") = 0
    /\ kept = << "FR", "RF" >>

\* C3: for a histogram with total >= 1 the median is the smallest key whose
\* cumulative count is at least floor((total + 1) / 2); for an even total it
\* is the lower of the two central values, so never above it.
C3_MedianIsFirstKeyReachingRank ==
    (pc = "done" /\ CounterTotal(counts) >= 1) =>
        /\ IsRankMedian(counts, result)
        /\ (CounterTotal(counts) % 2 = 0) =>
              LET half == CounterTotal(counts) \div 2 IN
              /\ CumulativeCount(counts, result) >= half
              /\ CumulativeCount(counts, result) - counts[result] < half

\* the histogram {1: 2, 2: 2}: the central values are 1 and 2, the median is 1
C3_Witness ==
    /\ pc = "done"
    /\ counts = (1 :> 2) @@ (2 :> 2)
    /\ result = 1

\* C4: under the dominant strategy the selected orientation is a retained one
\* with the largest count, and among the retained ones with that count it is
\* the first in the order FR, RF, TANDEM; it is fixed by the final counts.
C4_DominantFirstMaximal ==
    (Selected /\ strategy = "dominant" /\ kept # << >>) =>
        /\ outcome = "ok"
        /\ best_ori \in Range(kept)
        /\ \A c \in Range(kept) :
              /\ CategoryCount(c) <= CategoryCount(best_ori)
              /\ (CategoryCount(c) = CategoryCount(best_ori))
                    => (OrderIndex(best_ori) <= OrderIndex(c))

\* RF and TANDEM are retained with equal counts and FR has none: RF is selected
C4_Witness ==
    /\ Selected
    /\ strategy = "dominant"
    /\ CategoryCount("FR") = 0
    /\ CategoryCount("RF") = 1
    /\ CategoryCount("TANDEM") = 1
    /\ kept = << "RF", "TANDEM" >>
    /\ best_ori = "RF"

\* C5: under the specific strategy with a non-empty retained set, a requested
\* orientation that is not retained gives CategoryBelowThreshold, and a
\* retained one gives the median of its own histogram, whatever the other
\* counts are.
C5_SpecificUsesRequested ==
    (Selected /\ strategy = "specific" /\ kept # << >>) =>
        IF orientation_pref \notin Range(kept)
        THEN outcome = "CategoryBelowThreshold"
        ELSE /\ outcome = "ok"
             /\ best_ori = orientation_pref
             /\ IsRankMedian(hists[orientation_pref], result)

\* RF is requested and retained while FR has more records
C5_Witness ==
    /\ Selected
    /\ strategy = "specific"
    /\ orientation_pref = "RF"
    /\ CategoryCount("FR") = 2
    /\ CategoryCount("RF") = 1
    /\ outcome = "ok"
    /\ result \in DOMAIN hists["RF"]

\* C6: an invalid strategy or orientation_pref ends the call with
\* InvalidParameter before the source is opened or a record consumed; a
\* data-driven outcome exists only once the source is exhausted; a source
\* without eligible leftmost records ends in NoEligibleRecords.
C6_OutcomeOrdering ==
    /\ ((strategy \notin {"specific", "dominant"})
           \/ (orientation_pref \notin {"FR", "RF", "TANDEM"}))
          => /\ ~opened
             /\ nread = 0
             /\ (pc = "done") => (outcome = "InvalidParameter")
    /\ (outcome \in {"NoEligibleRecords", "AllCategoriesPruned",
                     "CategoryBelowThreshold", "ok"})
          => (eof /\ pc = "done")
    /\ (Selected /\ HistsTotal(hists) = 0) => (outcome = "NoEligibleRecords")

\* an empty source
C6_Witness ==
    /\ Selected
    /\ nread = 0
    /\ outcome = "NoEligibleRecords"

\* the basic filters as the record's flags state them
PassesFlagFilters(rec) ==
    /\ rec.is_paired
    /\ ~rec.is_secondary
    /\ ~rec.is_supplementary
    /\ (~rec.is_duplicate) \/ include_duplicates
    /\ ~rec.is_unmapped
    /\ ~rec.mate_is_unmapped
    /\ rec.reference_id = rec.next_reference_id
    /\ rec.is_proper_pair \/ ~require_proper_pair

\* the two records of stream are the mates of one template
MatesOfOneTemplate ==
    /\ Len(stream) = 2
    /\ stream[1].template_length # 0
    /\ stream[2].template_length = 0 - stream[1].template_length
    /\ PassesFlagFilters(stream[1])
    /\ PassesFlagFilters(stream[2])

\* C7: once both mates of a template that pass the flag filters have been
\* processed, in either order, the pair has added exactly one observation to
\* the histograms and one to total_left_records; and as long as only records
\* with template_length <= 0 have been processed the histograms are as they
\* were.
C7_SingleCounting ==
    /\ (MatesOfOneTemplate /\ nread = 2) =>
          /\ HistsTotal(hists) = HistsTotal(hists0) + 1
          /\ total_left_records = total0 + 1
    /\ (\A i \in 1 .. nread : stream[i].template_length <= 0) => (hists = hists0)

\* the rightmost mate came first, then the leftmost one
C7_Witness ==
    /\ MatesOfOneTemplate
    /\ nread = 2
    /\ stream[1].template_length < 0
    /\ total_left_records = total0 + 1

\* count of key k in the Counter of orientation c, 0 for a missing key
CellCount(h, c, k) == IF k \in DOMAIN h[c] THEN h[c][k] ELSE 0

EligibleRecord(rec) == PassesFlagFilters(rec) /\ rec.template_length > 0

\* the orientation of the truth table: equal strands TANDEM, left forward and
\* right reverse FR, left reverse and right forward RF
TableOrientation(rec) ==
    CASE rec.is_reverse = rec.mate_is_reverse -> "TANDEM"
      [] (~rec.is_reverse) /\ rec.mate_is_reverse -> "FR"
      [] rec.is_reverse /\ ~rec.mate_is_reverse -> "RF"

\* C8: processing an eligible record increments exactly the cell
\* histogram[c][abs(template_length)] of its orientation c by one and
\* total_left_records by one, every other cell being unchanged; processing a
\* record that is not eligible changes nothing.
C8_RecordEffect ==
    (nread = 1) =>
        LET rec == stream[1] IN
        IF EligibleRecord(rec)
        THEN /\ total_left_records = total0 + 1
             /\ \A c \in Categories : \A k \in 1 .. (MaxIns + 1) :
                   CellCount(hists, c, k) =
                       CellCount(hists0, c, k)
                         + (IF c = TableOrientation(rec) /\ k = rec.template_length
                            THEN 1 ELSE 0)
             /\ \A c \in Categories : DOMAIN hists[c] \subseteq 1 .. MaxIns
        ELSE /\ hists = hists0
             /\ total_left_records = total0

\* an eligible RF record of insert size 2 after templates of size 1
C8_Witness ==
    /\ nread = 1
    /\ EligibleRecord(stream[1])
    /\ stream[1].is_reverse
    /\ ~stream[1].mate_is_reverse
    /\ stream[1].template_length = 2
    /\ hists0["RF"] = (1 :> 2)
    /\ hists["RF"] = (1 :> 2) @@ (2 :> 1)

\* C9: when compute_insert_size returns a number the median was taken of a
\* histogram with total >= 1, by the loop and not by a defensive return, and
\* the number is a positive key of the selected orientation's histogram.
C9_MedianOnNonEmptyHistogram ==
    (Selected /\ outcome = "ok") =>
        /\ best_ori \in Categories
        /\ counts = hists[best_ori]
        /\ CounterTotal(counts) >= 1
        /\ median_branch = "loop"
        /\ result > 0
        /\ result \in DOMAIN hists[best_ori]
        /\ hists[best_ori][result] >= 1

\* min_pct = 0, FR requested, the two FR templates have sizes 1 and 2
C9_Witness ==
    /\ Selected
    /\ outcome = "ok"
    /\ min_pct = << 0, 1 >>
    /\ strategy = "specific"
    /\ hists["FR"] = (1 :> 1) @@ (2 :> 1)
    /\ result = 1

\* C10: at the end of a scan total_left_records is the sum of all counts; so
\* with total_left_records > 0 and 0 <= min_pct <= 1/3 some orientation is
\* retained, AllCategoriesPruned does not occur and the dominant strategy
\* returns a number; AllCategoriesPruned occurs only for min_pct > 1/3.
C10_SomeCategoryRetained ==
    /\ eof => (total_left_records = HistsTotal(hists))
    /\ (Selected /\ total_left_records > 0
          /\ 0 <= min_pct[1] /\ 3 * min_pct[1] <= min_pct[2]) =>
          /\ kept # << >>
          /\ outcome # "AllCategoriesPruned"
          /\ (strategy = "dominant") => (outcome = "ok")
    /\ (outcome = "AllCategoriesPruned") => (3 * min_pct[1] > min_pct[2])

\* min_pct = 1/2 and one template of each orientation
C10_Witness ==
    /\ outcome = "AllCategoriesPruned"
    /\ min_pct = << 1, 2 >>
    /\ CategoryCount("FR") = 1
    /\ CategoryCount("RF") = 1
    /\ CategoryCount("TANDEM") = 1

====
